---- MODULE Spec2Model ----
(***************************************************************************)
(* ammonite: a single-upstream HTTP reverse proxy.                         *)
(*                                                                         *)
(* Two builds of the same pipeline are modelled:                           *)
(*   "backend"  src/ammonite-backend/src/main.rs  (port substitution,      *)
(*              counters error_responses / redirect_responses / responses) *)
(*   "minimal"  src/src/main.rs                   (Host passed through,    *)
(*              histogram only)                                            *)
(*                                                                         *)
(* Text is modelled as a sequence of tokens, so that format!() is          *)
(* concatenation and parsing is something a value can fail.                *)
(***************************************************************************)
EXTENDS Naturals, Integers, Sequences, FiniteSets, Bags, TLC

\* Number of inbound requests of one run.
MaxReq == 2

\* Number of direct invocations of the Resolver service in SpecResolver.
MaxCalls == 3

Reqs == 1..MaxReq

Variants == {"backend", "minimal"}

\* Values of --remote (cli.rs: Args.remote), a SocketAddr.
Remotes == {[ip |-> "127.0.0.1", port |-> "9000"], [ip |-> "192.0.2.7", port |-> "3000"]}

None == [some |-> FALSE, val |-> <<>>]

Some(v) == [some |-> TRUE, val |-> v]

\* ------------------------------------------------------------------ URIs

\* Host names that are IP literals (std::net::IpAddr parses them).
IpLiterals == {"10.0.0.5", "127.0.0.1", "192.0.2.7"}

\* http::uri::Authority parsing as used by Uri::builder().authority(..):
\* the empty text and a text with more than one colon are rejected.
ColonCount(s) == Cardinality({i \in 1..Len(s) : s[i] = ":"})

AuthorityOk(s) == Len(s) > 0 /\ ColonCount(s) <= 1

AuthorityHost(s) == <<s[1]>>

AuthorityPort(s) == IF Len(s) = 3 THEN Some(s[3]) ELSE None

\* An inbound request target.  scheme and authority are empty in origin form
\* ("/health?x=1"); authority form ("tenant.example.com:443") has no path.
OriginForm(pq) == [scheme |-> <<>>, authority |-> <<>>, pq |-> pq]

AuthorityForm(a) == [scheme |-> <<>>, authority |-> a, pq |-> <<>>]

\* Uri::path_and_query(): None exactly when the target has an authority but no scheme.
path_and_query(uri) ==
    IF uri.scheme # <<>> \/ uri.authority = <<>> THEN Some(uri.pq) ELSE None

\* Uri's Display: scheme, "://", authority, path and query, each when present.
uri_to_string(uri) ==
    (IF uri.scheme # <<>> THEN uri.scheme \o <<"://">> ELSE <<>>) \o uri.authority \o uri.pq

\* ------------------------------------------------------------------ requests

\* The inbound requests of the model: every shape of Host header, a request
\* without one, and a target in authority form with and without a Host header.
SampleRequests ==
    { [method |-> "GET", host |-> Some(<<"tenant.example.com">>),
       uri |-> OriginForm(<<"/health">>), body |-> <<>>],
      [method |-> "POST", host |-> Some(<<"tenant.example.com", ":", "8080">>),
       uri |-> OriginForm(<<"/anything", "?", "x=1">>), body |-> <<"payload">>],
      [method |-> "GET", host |-> Some(<<"10.0.0.5">>),
       uri |-> OriginForm(<<"/health", "?", "probe=1">>), body |-> <<>>],
      [method |-> "GET", host |-> None,
       uri |-> OriginForm(<<"/health">>), body |-> <<>>],
      [method |-> "POST", host |-> Some(<<"tenant.example.com">>),
       uri |-> AuthorityForm(<<"tenant.example.com", ":", "443">>), body |-> <<>>],
      [method |-> "GET", host |-> None,
       uri |-> AuthorityForm(<<"tenant.example.com", ":", "443">>), body |-> <<>>] }

NoRequest == [method |-> "", host |-> None, uri |-> OriginForm(<<>>), body |-> <<>>]

\* Status codes an upstream answers with (http::StatusCode holds 100..=999).
Statuses == {200, 301, 404, 500, 600}

NoResponse == [status |-> 0, body |-> <<>>]

\* axum's Host extractor (fallback's first argument), for a request without
\* Forwarded / X-Forwarded-Host headers: the Host header, else the host of
\* the request target, else the request is rejected with 400.
HostExtract(request) ==
    IF request.host.some THEN Some(request.host.val)
    ELSE IF request.uri.authority # <<>> THEN Some(AuthorityHost(request.uri.authority))
    ELSE None

HostRejection == [status |-> 400, body |-> <<"No host found in request">>]

\* The text given to Uri::builder().authority(..).
OutboundAuthority(v, st, hostname) ==
    IF v = "backend" THEN hostname \o <<":", st.remote.port>> ELSE hostname

\* RewriteUri with unwrap_or_default in place of the first unwrap(): a
\* target without path and query is forwarded with the path "/".
RewriteUri_DefaultPath(v, st, uri, hostname) ==
    LET a  == OutboundAuthority(v, st, hostname)
        pq == path_and_query(uri)
    IN  IF ~AuthorityOk(a) THEN None
        ELSE Some([scheme |-> <<"http">>, authority |-> a,
                   pq |-> IF pq.some THEN pq.val ELSE <<"/">>])

\* RewriteUri that copies path() instead of path_and_query(): the query is lost.
RewriteUri_PathOnly(v, st, uri, hostname) ==
    LET a  == OutboundAuthority(v, st, hostname)
        pq == path_and_query(uri)
    IN  IF ~pq.some THEN None
        ELSE IF ~AuthorityOk(a) THEN None
        ELSE Some([scheme |-> <<"http">>, authority |-> a, pq |-> SubSeq(pq.val, 1, 1)])

\* fallback, the rewrite of the request target: None stands for the panic of
\* either unwrap().
RewriteUri(v, st, uri, hostname) ==
    LET a  == OutboundAuthority(v, st, hostname)
        pq == path_and_query(uri)
    IN  IF ~pq.some THEN None
        ELSE IF ~AuthorityOk(a) THEN None
        ELSE Some([scheme |-> <<"http">>, authority |-> a, pq |-> pq.val])

\* ------------------------------------------------------------------ resolver

\* Resolver::poll_ready
Resolver_poll_ready(res) == [ready |-> TRUE, ok |-> TRUE]

\* Resolver::call that honours a name that is an IP literal and fails on the empty name.
Resolver_call_ByName(res, name) ==
    IF name = "" THEN [ok |-> FALSE, addrs |-> <<>>]
    ELSE IF name \in IpLiterals
    THEN [ok |-> TRUE, addrs |-> <<[ip |-> name, port |-> res.remote.port]>>]
    ELSE [ok |-> TRUE, addrs |-> <<res.remote>>]

\* Resolver::call: an iterator over the addresses, as a sequence.
Resolver_call(res, name) == [ok |-> TRUE, addrs |-> <<res.remote>>]

\* The port hyper's HttpConnector dials: the port of the target, else the default of http.
DefaultHttpPort == "80"

\* HttpConnector<Resolver>, built in main: an IP-literal host is dialled
\* as it is; any other name goes through the resolver, and the port of each
\* address it yields is set to the port of the target.
Connect(st, uri) ==
    LET host == AuthorityHost(uri.authority)[1]
        p    == AuthorityPort(uri.authority)
        port == IF p.some THEN p.val ELSE DefaultHttpPort
    IN  IF host \in IpLiterals
        THEN [addr |-> [ip |-> host, port |-> port], resolved |-> None]
        ELSE LET res == Resolver_call([remote |-> st.remote], host)
             IN  [addr |-> [ip |-> res.addrs[1].ip, port |-> port],
                  resolved |-> Some(res.addrs)]

NoConn == [addr |-> [ip |-> "", port |-> ""], resolved |-> None]

\* ------------------------------------------------------------------ status

\* http::StatusCode::is_redirection / is_client_error / is_server_error
is_redirection(s) == 300 <= s /\ s < 400

is_client_error(s) == 400 <= s /\ s < 500

is_server_error(s) == 500 <= s /\ s < 600

\* StatusCode::as_str: the three digits.
as_str(s) == <<ToString(s)>>

\* StatusCode::canonical_reason
canonical_reason(s) ==
    CASE s = 200 -> Some("OK")
      [] s = 301 -> Some("Moved Permanently")
      [] s = 400 -> Some("Bad Request")
      [] s = 404 -> Some("Not Found")
      [] s = 500 -> Some("Internal Server Error")
      [] OTHER   -> None

\* StatusCode's Display (to_string): the digits, a space, the canonical reason.
status_to_string(s) ==
    LET reason == canonical_reason(s)
    IN  <<ToString(s), " ", IF reason.some THEN reason.val ELSE "<unknown status code>">>

\* ------------------------------------------------------------------ events

\* What a request emits: log lines (tracing), counter increments and
\* histogram observations (metrics).  `by` is the function that emits.
LogLine(by, level, message, fields) ==
    [kind |-> "log", by |-> by, level |-> level, name |-> message, labels |-> fields]

CounterInc(name, labels) ==
    [kind |-> "counter", by |-> "observe", level |-> "", name |-> name, labels |-> labels]

HistogramObs(name, labels) ==
    [kind |-> "histogram", by |-> "observe", level |-> "", name |-> name, labels |-> labels]

MetricKey(e) == [name |-> e.name, labels |-> e.labels]

\* observe: the labels of the metrics and the fields of the log line.
MetricLabels(status, method) ==
    << <<"status", status_to_string(status)>>, <<"method", <<method>>>> >>

LogFields(status, method, uri) ==
    << <<"status", as_str(status)>>, <<"uri", uri_to_string(uri)>>, <<"method", <<method>>>> >>

\* ObserveEvents with the redirect branch as an alternative to the general
\* branch (else if / else) instead of a prefix of it.
ObserveEvents_RedirectElse(v, status, method, uri) ==
    LET L == MetricLabels(status, method)
        F == LogFields(status, method, uri)
    IN  IF v = "backend"
        THEN (IF is_client_error(status) \/ is_server_error(status)
              THEN << CounterInc("error_responses", L),
                      LogLine("observe", "error", "Serving error", F) >>
              ELSE IF is_redirection(status)
              THEN << LogLine("observe", "warn", "Serving redirect", F),
                      CounterInc("redirect_responses", L) >>
              ELSE << CounterInc("responses", L),
                      LogLine("observe", "info", "Serving response", F) >>)
             \o << HistogramObs("response_processing_time_seconds", L) >>
        ELSE (IF is_client_error(status) \/ is_server_error(status)
              THEN << LogLine("observe", "error", "Serving error", F) >>
              ELSE << LogLine("observe", "info", "Serving response", F) >>)
             \o << HistogramObs("response_processing_time_seconds", <<>>) >>

\* ObserveEvents without the counter! of the error branch.
ObserveEvents_NoErrorCounter(v, status, method, uri) ==
    LET L == MetricLabels(status, method)
        F == LogFields(status, method, uri)
    IN  IF v = "backend"
        THEN (IF is_client_error(status) \/ is_server_error(status)
              THEN << LogLine("observe", "error", "Serving error", F) >>
              ELSE (IF is_redirection(status)
                    THEN << LogLine("observe", "warn", "Serving redirect", F),
                            CounterInc("redirect_responses", L) >>
                    ELSE <<>>)
                   \o << CounterInc("responses", L),
                         LogLine("observe", "info", "Serving response", F) >>)
             \o << HistogramObs("response_processing_time_seconds", L) >>
        ELSE (IF is_client_error(status) \/ is_server_error(status)
              THEN << LogLine("observe", "error", "Serving error", F) >>
              ELSE << LogLine("observe", "info", "Serving response", F) >>)
             \o << HistogramObs("response_processing_time_seconds", <<>>) >>

\* ObserveEvents with the test of line 65 reduced to is_server_error.
ObserveEvents_ServerErrorOnly(v, status, method, uri) ==
    LET L == MetricLabels(status, method)
        F == LogFields(status, method, uri)
    IN  IF v = "backend"
        THEN (IF is_server_error(status)
              THEN << CounterInc("error_responses", L),
                      LogLine("observe", "error", "Serving error", F) >>
              ELSE (IF is_redirection(status)
                    THEN << LogLine("observe", "warn", "Serving redirect", F),
                            CounterInc("redirect_responses", L) >>
                    ELSE <<>>)
                   \o << CounterInc("responses", L),
                         LogLine("observe", "info", "Serving response", F) >>)
             \o << HistogramObs("response_processing_time_seconds", L) >>
        ELSE (IF is_server_error(status)
              THEN << LogLine("observe", "error", "Serving error", F) >>
              ELSE << LogLine("observe", "info", "Serving response", F) >>)
             \o << HistogramObs("response_processing_time_seconds", <<>>) >>

\* ObserveEvents with the histogram! moved into the non-error branch.
ObserveEvents_HistogramOnSuccess(v, status, method, uri) ==
    LET L == MetricLabels(status, method)
        F == LogFields(status, method, uri)
    IN  IF v = "backend"
        THEN (IF is_client_error(status) \/ is_server_error(status)
              THEN << CounterInc("error_responses", L),
                      LogLine("observe", "error", "Serving error", F) >>
              ELSE (IF is_redirection(status)
                    THEN << LogLine("observe", "warn", "Serving redirect", F),
                            CounterInc("redirect_responses", L) >>
                    ELSE <<>>)
                   \o << CounterInc("responses", L),
                         LogLine("observe", "info", "Serving response", F),
                         HistogramObs("response_processing_time_seconds", L) >>)
        ELSE (IF is_client_error(status) \/ is_server_error(status)
              THEN << LogLine("observe", "error", "Serving error", F) >>
              ELSE << LogLine("observe", "info", "Serving response", F),
                      HistogramObs("response_processing_time_seconds", <<>>) >>)

\* observe, after the response is available, in the order of the code.
ObserveEvents(v, status, method, uri) ==
    LET L == MetricLabels(status, method)
        F == LogFields(status, method, uri)
    IN  IF v = "backend"
        THEN (IF is_client_error(status) \/ is_server_error(status)
              THEN << CounterInc("error_responses", L),
                      LogLine("observe", "error", "Serving error", F) >>
              ELSE (IF is_redirection(status)
                    THEN << LogLine("observe", "warn", "Serving redirect", F),
                            CounterInc("redirect_responses", L) >>
                    ELSE <<>>)
                   \o << CounterInc("responses", L),
                         LogLine("observe", "info", "Serving response", F) >>)
             \o << HistogramObs("response_processing_time_seconds", L) >>
        ELSE (IF is_client_error(status) \/ is_server_error(status)
              THEN << LogLine("observe", "error", "Serving error", F) >>
              ELSE << LogLine("observe", "info", "Serving response", F) >>)
             \o << HistogramObs("response_processing_time_seconds", <<>>) >>

\* What state.client.request(request) resolves to: a response of the
\* upstream, or an error of the client.
UpstreamOutcomes ==
    {[ok |-> TRUE, response |-> [status |-> s, body |-> <<"ok">>]] : s \in Statuses}
        \cup {[ok |-> FALSE, response |-> NoResponse]}

\* FallbackResult that turns an upstream 5xx into 502 with an empty body.
FallbackResult_Translating(outcome) ==
    IF outcome.ok
    THEN [response |-> IF is_server_error(outcome.response.status)
                       THEN [status |-> 502, body |-> <<>>]
                       ELSE outcome.response,
          events |-> <<>>]
    ELSE [response |-> [status |-> 500, body |-> <<>>],
          events |-> << LogLine("fallback", "error",
                                "Internal error when talking to upstream", <<>>) >>]

\* FallbackResult that answers a failed upstream call without logging it.
FallbackResult_Silent(outcome) ==
    IF outcome.ok
    THEN [response |-> outcome.response, events |-> <<>>]
    ELSE [response |-> [status |-> 500, body |-> <<>>], events |-> <<>>]

\* fallback, the match on the result of state.client.request(request):
\* the response it returns and what it logs.
FallbackResult(outcome) ==
    IF outcome.ok
    THEN [response |-> outcome.response, events |-> <<>>]
    ELSE [response |-> [status |-> 500, body |-> <<>>],
          events |-> << LogLine("fallback", "error",
                                "Internal error when talking to upstream", <<>>) >>]

\* ------------------------------------------------------------------ order and cancellation

\* The kinds of a sequence of events, in order.
Kinds(es) == [i \in 1..Len(es) |-> es[i].kind]

\* ObserveEntryEvents that counts the request when it is received.
ObserveEntryEvents_CountReceived(v, method, uri) ==
    << CounterInc("requests", << <<"method", <<method>>>> >>) >>

\* observe before next.run(request): the clones and Instant::now(); it emits nothing.
ObserveEntryEvents(v, method, uri) == <<>>

\* ObserveAfterSteps that returns the response and leaves the emissions to later.
ObserveAfterSteps_EmitLater(es) == <<"elapsed", "return">> \o Kinds(es)

\* observe from start.elapsed() to the return of the response: the elapsed
\* time is taken, then the events es are emitted, then the response is returned.
ObserveAfterSteps(es) == <<"elapsed">> \o Kinds(es) \o <<"return">>

\* ObserveReturn that builds a new response with the status it observed.
ObserveReturn_Rebuilt(response) == [status |-> response.status, body |-> <<>>]

\* observe's last expression: the response it got from next.run.
ObserveReturn(response) == response

\* Release that keeps the upstream call of r.
Release_Leak(h, r) == h

\* The future of state.client.request(request) is dropped or has resolved:
\* request r no longer holds its upstream call.
Release(h, r) == h \ {r}

\* ------------------------------------------------------------------ state

VARIABLES
    variant,      \* which build runs
    state,        \* ProxyState: the fixed upstream address (the client is its connector)
    pc,           \* per request: idle, handler, await, after, done, panicked, cancelled
    inbound,      \* per request: the request as received
    captured,     \* per request: the uri and method observe cloned
    outbound,     \* per request: the request given to state.client.request
    calls,        \* per request: number of state.client.request calls
    conn,         \* per request: where the connector dials for it
    upstream,     \* per request: what the upstream client returned
    handlerResp,  \* per request: the response next.run returned to observe
    clientResp,   \* per request: the response observe returned to the server
    events,       \* per request: what was emitted for it, in order
    counters,     \* the metrics registry: counter increments per key
    histogram,    \* the metrics registry: observations per key
    steps,        \* per request: what its task did, in program order
    held,         \* requests whose upstream call is in flight (a connection slot each)
    resolverLog   \* results of direct invocations of the Resolver service

vars == <<variant, state, pc, inbound, captured, outbound, calls, conn, upstream,
          handlerResp, clientResp, events, counters, histogram, steps, held,
          resolverLog>>

NoCapture == [uri |-> OriginForm(<<>>), method |-> ""]

NoOutcome == [ok |-> FALSE, response |-> [status |-> 1, body |-> <<>>]]

\* main: the configuration is read and ProxyState is built; no request yet.
Init ==
    /\ variant \in Variants
    /\ state \in {[remote |-> a] : a \in Remotes}
    /\ pc = [r \in Reqs |-> "idle"]
    /\ inbound = [r \in Reqs |-> NoRequest]
    /\ captured = [r \in Reqs |-> NoCapture]
    /\ outbound = [r \in Reqs |-> None]
    /\ calls = [r \in Reqs |-> 0]
    /\ conn = [r \in Reqs |-> NoConn]
    /\ upstream = [r \in Reqs |-> NoOutcome]
    /\ handlerResp = [r \in Reqs |-> NoResponse]
    /\ clientResp = [r \in Reqs |-> NoResponse]
    /\ events = [r \in Reqs |-> <<>>]
    /\ counters = EmptyBag
    /\ histogram = EmptyBag
    /\ steps = [r \in Reqs |-> <<>>]
    /\ held = {}
    /\ resolverLog = <<>>

\* The events of one kind in a sequence of events.
OfKind(es, k) == SelectSeq(es, LAMBDA e : e.kind = k)

RECURSIVE Record(_, _)
\* counter!/histogram! applied for each event of es, in order.
Record(bag, es) ==
    IF es = <<>> THEN bag
    ELSE Record(bag (+) SetToBag({MetricKey(Head(es))}), Tail(es))

\* observe, up to next.run(request): requests are numbered as they arrive.
ObserveBefore(r, q) ==
    /\ pc[r] = "idle"
    /\ IF r = 1 THEN TRUE ELSE pc[r - 1] # "idle"
    /\ pc' = [pc EXCEPT ![r] = "handler"]
    /\ inbound' = [inbound EXCEPT ![r] = q]
    /\ captured' = [captured EXCEPT ![r] = [uri |-> q.uri, method |-> q.method]]
    /\ LET es == ObserveEntryEvents(variant, q.method, q.uri)
       IN  /\ events' = [events EXCEPT ![r] = @ \o es]
           /\ counters' = Record(counters, OfKind(es, "counter"))
           /\ histogram' = Record(histogram, OfKind(es, "histogram"))
           /\ steps' = [steps EXCEPT ![r] = @ \o <<"start">> \o Kinds(es) \o <<"next.run">>]
    /\ UNCHANGED <<variant, state, outbound, calls, conn, upstream, handlerResp,
                   clientResp, held, resolverLog>>

\* fallback, up to the await of state.client.request(request): the Host
\* extractor, the rewrite of the target, the call.
FallbackBegin(r) ==
    /\ pc[r] = "handler"
    /\ LET h == HostExtract(inbound[r])
       IN  IF ~h.some
           THEN /\ handlerResp' = [handlerResp EXCEPT ![r] = HostRejection]
                /\ pc' = [pc EXCEPT ![r] = "after"]
                /\ steps' = [steps EXCEPT ![r] = @ \o <<"rejected">>]
                /\ UNCHANGED <<outbound, calls, conn, held>>
           ELSE LET u == RewriteUri(variant, state, inbound[r].uri, h.val)
                IN  IF ~u.some
                    THEN /\ pc' = [pc EXCEPT ![r] = "panicked"]
                         /\ steps' = [steps EXCEPT ![r] = @ \o <<"handler", "panic">>]
                         /\ UNCHANGED <<outbound, calls, conn, handlerResp, held>>
                    ELSE /\ outbound' = [outbound EXCEPT ![r] =
                                            Some([inbound[r] EXCEPT !.uri = u.val])]
                         /\ calls' = [calls EXCEPT ![r] = @ + 1]
                         /\ conn' = [conn EXCEPT ![r] = Connect(state, u.val)]
                         /\ held' = held \cup {r}
                         /\ steps' = [steps EXCEPT ![r] = @ \o <<"handler", "request">>]
                         /\ pc' = [pc EXCEPT ![r] = "await"]
                         /\ UNCHANGED handlerResp
    /\ UNCHANGED <<variant, state, inbound, captured, upstream, clientResp, events,
                   counters, histogram, resolverLog>>

\* fallback, from the await on: the upstream client returned `outcome`.
FallbackEnd(r, outcome) ==
    /\ pc[r] = "await"
    /\ LET res == FallbackResult(outcome)
       IN  /\ handlerResp' = [handlerResp EXCEPT ![r] = res.response]
           /\ events' = [events EXCEPT ![r] = @ \o res.events]
           /\ steps' = [steps EXCEPT ![r] =
                           @ \o <<"upstream">> \o Kinds(res.events) \o <<"handler_return">>]
    /\ upstream' = [upstream EXCEPT ![r] = outcome]
    /\ held' = Release(held, r)
    /\ pc' = [pc EXCEPT ![r] = "after"]
    /\ UNCHANGED <<variant, state, inbound, captured, outbound, calls, conn, clientResp,
                   counters, histogram, resolverLog>>

\* The client went away while the task of r was suspended in
\* state.client.request(request).await (and so observe in next.run(request).await):
\* the server drops the task, and with it both futures.
Cancel(r) ==
    /\ pc[r] = "await"
    /\ pc' = [pc EXCEPT ![r] = "cancelled"]
    /\ held' = Release(held, r)
    /\ steps' = [steps EXCEPT ![r] = @ \o <<"dropped">>]
    /\ UNCHANGED <<variant, state, inbound, captured, outbound, calls, conn, upstream,
                   handlerResp, clientResp, events, counters, histogram, resolverLog>>

\* observe, after next.run(request) returned.
ObserveAfter(r) ==
    /\ pc[r] = "after"
    /\ LET es == ObserveEvents(variant, handlerResp[r].status, captured[r].method,
                               captured[r].uri)
       IN  /\ events' = [events EXCEPT ![r] = @ \o es]
           /\ counters' = Record(counters, OfKind(es, "counter"))
           /\ histogram' = Record(histogram, OfKind(es, "histogram"))
           /\ steps' = [steps EXCEPT ![r] = @ \o ObserveAfterSteps(es)]
    /\ clientResp' = [clientResp EXCEPT ![r] = ObserveReturn(handlerResp[r])]
    /\ pc' = [pc EXCEPT ![r] = "done"]
    /\ UNCHANGED <<variant, state, inbound, captured, outbound, calls, conn, upstream,
                   handlerResp, held, resolverLog>>

Next ==
    \/ \E r \in Reqs, q \in SampleRequests : ObserveBefore(r, q)
    \/ \E r \in Reqs : FallbackBegin(r)
    \/ \E r \in Reqs, o \in UpstreamOutcomes : FallbackEnd(r, o)
    \/ \E r \in Reqs : Cancel(r)
    \/ \E r \in Reqs : ObserveAfter(r)

Spec == Init /\ [][Next]_vars

\* ------------------------------------------------------------------ the resolver alone

\* Host names handed to the resolver: empty, an IP literal, arbitrary text.
Names == {"", "10.0.0.5", "tenant.example.com", "not a host name!"}

\* One invocation of the Resolver service: poll_ready, then call.
ResolverInvoke(name) ==
    /\ Len(resolverLog) < MaxCalls
    /\ LET res == [remote |-> state.remote]
       IN  resolverLog' = Append(resolverLog,
                [name |-> name, ready |-> Resolver_poll_ready(res),
                 result |-> Resolver_call(res, name)])
    /\ UNCHANGED <<variant, state, pc, inbound, captured, outbound, calls, conn, upstream,
                   handlerResp, clientResp, events, counters, histogram, steps, held>>

NextResolver == \E name \in Names : ResolverInvoke(name)

SpecResolver == Init /\ [][NextResolver]_vars

\* ------------------------------------------------------------------ claims

Done(r) == pc[r] = "done"

Counters(r) == OfKind(events[r], "counter")

Logs(r) == OfKind(events[r], "log")

Named(es, names) == SelectSeq(es, LAMBDA e : e.name \in names)

EmittedBy(es, f) == SelectSeq(es, LAMBDA e : e.by = f)

AtLevel(es, l) == SelectSeq(es, LAMBDA e : e.level = l)

\* The upstream client was called for r and returned an error / a response.
UpstreamFailed(r) == calls[r] = 1 /\ pc[r] \in {"after", "done"} /\ ~upstream[r].ok

UpstreamAnswered(r) == calls[r] = 1 /\ pc[r] \in {"after", "done"} /\ upstream[r].ok

StatusLabel(e) == e.labels[1][2]

CounterTotal(names) ==
    LET keys == {k \in BagToSet(counters) : k.name \in names}
    IN  BagCardinality([k \in keys |-> counters[k]])

Served == {r \in Reqs : Done(r)}

C5_Original ==
    \A r \in Reqs : Done(r) =>
        \A i \in 1..Len(Logs(r)) :
            Logs(r)[i].level = "error" <=> clientResp[r].status >= 400

\* C5, amended: a log line of a request has level error exactly when the
\* status the client receives is 4xx or 5xx (400..599); a status of 600 or
\* more is logged at info.
C5_LogLevel ==
    \A r \in Reqs : Done(r) =>
        \A i \in 1..Len(Logs(r)) :
            Logs(r)[i].level = "error"
                <=> (400 <= clientResp[r].status /\ clientResp[r].status <= 599)

\* C5, witness: completed requests with a status of exactly 500 from the
\* upstream, with a failed upstream call, and with a status below 400.
C5_Witness ==
    /\ \E r \in Reqs : Done(r) /\ UpstreamAnswered(r) /\ clientResp[r].status = 500
    /\ \E r \in Reqs : Done(r) /\ clientResp[r].status < 400 /\ Len(Logs(r)) > 0

\* The handler has returned or unwound for r.
HandlerLeft(r) == pc[r] \in {"after", "done", "panicked"}

\* C6: a request causes one call of the upstream client and never a second;
\* or none, and then the handler still returned a response.
C6_OneAttemptOrResponse ==
    \A r \in Reqs :
        /\ calls[r] <= 1
        /\ HandlerLeft(r) /\ calls[r] = 0 => handlerResp[r] # NoResponse

\* C7: a request whose path and query cannot be retrieved makes the handler
\* panic: no upstream call, no outbound request (so no path substituted),
\* no response.
C7_MissingPathIsHardFailure ==
    \A r \in Reqs :
        pc[r] \notin {"idle", "handler"} /\ ~path_and_query(inbound[r].uri).some =>
            /\ pc[r] = "panicked"
            /\ calls[r] = 0
            /\ ~outbound[r].some
            /\ handlerResp[r] = NoResponse
            /\ clientResp[r] = NoResponse

\* C7, witness: the handler ran for a request in authority form.
C7_Witness ==
    \E r \in Reqs : pc[r] = "panicked" /\ inbound[r].uri.authority # <<>>

\* C8: in the backend build, for every request with a Host header (and a
\* path), the outbound authority is the host name of the header and the
\* port of the fixed upstream.
C8_PortSubstitution ==
    variant = "backend" =>
        \A r \in Reqs :
            HandlerLeft(r) /\ inbound[r].host.some /\ path_and_query(inbound[r].uri).some =>
                /\ outbound[r].some
                /\ outbound[r].val.uri.authority
                      = AuthorityHost(inbound[r].host.val) \o <<":", state.remote.port>>

\* C9: in the minimal build the outbound authority is the Host header as
\* received, and the connection is made to the fixed upstream address.
C9_Passthrough ==
    variant = "minimal" =>
        \A r \in Reqs :
            outbound[r].some /\ inbound[r].host.some =>
                /\ outbound[r].val.uri.authority = inbound[r].host.val
                /\ conn[r].addr = state.remote

\* C10: every invocation of the resolver is ready at once and yields,
\* without error, exactly one address, the fixed upstream address.
C10_ResolverFixed ==
    \A i \in 1..Len(resolverLog) :
        /\ resolverLog[i].ready = [ready |-> TRUE, ok |-> TRUE]
        /\ resolverLog[i].result.ok
        /\ Len(resolverLog[i].result.addrs) = 1
        /\ resolverLog[i].result.addrs[1] = state.remote

\* C10, witness: the resolver was invoked with the empty name, with an IP
\* literal and twice with the same name.
C10_Witness ==
    /\ \E i \in 1..Len(resolverLog) : resolverLog[i].name = ""
    /\ \E i \in 1..Len(resolverLog) : resolverLog[i].name = "10.0.0.5"
    /\ \E i, j \in 1..Len(resolverLog) : i # j /\ resolverLog[i].name = resolverLog[j].name

\* The outbound target of r could not be built: the handler unwound.
TargetFailed(r) == pc[r] = "panicked"

\* C11: a failure of a request (the upstream client returned an error, or
\* the outbound target could not be built) is surfaced as a response and a
\* log line of that request, and every other request that completed got
\* the response its own upstream call decides.
C11_FailuresContained ==
    \A r \in Reqs :
        UpstreamFailed(r) \/ TargetFailed(r) =>
            /\ handlerResp[r] # NoResponse
            /\ Len(Logs(r)) >= 1
            /\ \A o \in Reqs \ {r} :
                   Done(o) /\ calls[o] = 1 =>
                       clientResp[o] = FallbackResult(upstream[o]).response

Cancelled(r) == pc[r] = "cancelled"

\* C12: a request whose client went away while the upstream call was
\* pending ends without a response (none returned by the handler, none by
\* the middleware), no longer holds its upstream call, and the next
\* request can still be received.
C12_CancelReleases ==
    \A r \in Reqs :
        Cancelled(r) =>
            /\ handlerResp[r] = NoResponse
            /\ clientResp[r] = NoResponse
            /\ r \notin held
            /\ \A n \in Reqs :
                   pc[n] = "idle" /\ (n = 1 \/ pc[IF n = 1 THEN 1 ELSE n - 1] # "idle") =>
                       ENABLED (\E q \in SampleRequests : ObserveBefore(n, q))

\* C12, witness: a request was cancelled after its upstream call was
\* made, and a request that arrived after it was served.
C12_Witness ==
    \E r, n \in Reqs :
        /\ Cancelled(r) /\ calls[r] = 1
        /\ r < n /\ Done(n) /\ UpstreamAnswered(n)

\* C19: a cancelled request has emitted no counter increment, no histogram
\* observation and no log line of the middleware; so the registry holds one
\* histogram observation per request whose response became available, and
\* counters for no other request.
C19_CancelEmitsNothing ==
    /\ \A r \in Reqs :
           Cancelled(r) =>
               /\ OfKind(events[r], "counter") = <<>>
               /\ OfKind(events[r], "histogram") = <<>>
               /\ EmittedBy(Logs(r), "observe") = <<>>
    /\ BagCardinality(histogram) = Cardinality(Served)
    /\ Cardinality(Served) = 0 => counters = EmptyBag

\* C19, witness: a request was cancelled and another one served: two
\* received, one observation.
C19_Witness ==
    /\ \E r \in Reqs : Cancelled(r)
    /\ Cardinality(Served) = 1
    /\ BagCardinality(histogram) = 1

\* Every step named in A comes before every step named in B.
Precedes(s, A, B) ==
    \A i \in 1..Len(s), j \in 1..Len(s) : s[i] \in A /\ s[j] \in B => i < j

HandlerSteps == {"rejected", "handler", "request", "upstream", "handler_return"}

EmitSteps == {"counter", "histogram", "log"}

\* C13: within a request the start time is taken before the handler
\* begins, the handler (the upstream call and its result included) has
\* finished before the elapsed time is taken, the middleware emits after
\* that, and every counter, histogram observation and log line of the
\* request is emitted before the response is returned.
C13_StrictOrder ==
    \A r \in Reqs :
        LET s == steps[r]
        IN  /\ pc[r] # "idle" => s[1] = "start"
            /\ Precedes(s, {"start"}, HandlerSteps)
            /\ Precedes(s, HandlerSteps, {"elapsed"})
            /\ Precedes(s, {"elapsed"}, {"return"})
            /\ Precedes(s, EmitSteps, {"return"})
            /\ Done(r) =>
                  /\ s[Len(s)] = "return"
                  /\ \E i \in 1..Len(s) : s[i] = "elapsed"
                  /\ SelectSeq(s, LAMBDA x : x \in EmitSteps) = Kinds(events[r])
                  /\ \A i \in 1..Len(s) :
                         s[i] \in {"counter", "histogram"} =>
                             \E j \in 1..(i - 1) : s[j] = "elapsed"

\* C13, witness: a completed request whose upstream call failed: the
\* handler logged, then the middleware took the time, emitted and returned.
C13_Witness ==
    \E r \in Reqs :
        /\ Done(r) /\ UpstreamFailed(r) /\ variant = "backend"
        /\ steps[r] = <<"start", "next.run", "handler", "request", "upstream", "log",
                        "handler_return", "elapsed", "counter", "log", "histogram", "return">>

\* C14: the middleware is entered for every request received, whatever its
\* method and target, also for one the Host extractor rejects; the status
\* in its log line and metric labels is the status of the response the
\* client receives (500 when the handler substituted it), and that
\* response is the one the handler returned, unaltered.
C14_ObservesActualResponse ==
    \A r \in Reqs :
        /\ pc[r] # "idle" =>
              /\ steps[r][1] = "start"
              /\ captured[r] = [uri |-> inbound[r].uri, method |-> inbound[r].method]
        /\ Done(r) =>
              LET S  == clientResp[r].status
                  es == EmittedBy(events[r], "observe")
              IN  /\ clientResp[r] = handlerResp[r]
                  /\ UpstreamFailed(r) => S = 500
                  /\ UpstreamAnswered(r) => clientResp[r] = upstream[r].response
                  /\ Len(EmittedBy(Logs(r), "observe")) >= 1
                  /\ \A i \in 1..Len(es) :
                         /\ es[i].kind = "log" => es[i].labels[1] = <<"status", as_str(S)>>
                         /\ es[i].kind # "log" /\ variant = "backend" =>
                                es[i].labels[1] = <<"status", status_to_string(S)>>

\* C14, witness: completed requests: one rejected by the Host extractor,
\* one whose upstream call failed.
C14_Witness ==
    /\ \E r \in Reqs : Done(r) /\ calls[r] = 0 /\ clientResp[r].status = 400
    /\ \E r \in Reqs : Done(r) /\ UpstreamFailed(r)

\* The levels of the middleware's log lines of r, in order.
ObserveLevels(r) ==
    LET ls == EmittedBy(Logs(r), "observe") IN [i \in 1..Len(ls) |-> ls[i].level]

C16_RewriteFrame ==
    \A r \in Reqs :
        outbound[r].some =>
            /\ outbound[r].val.method = inbound[r].method
            /\ outbound[r].val.host = inbound[r].host
            /\ outbound[r].val.body = inbound[r].body
            /\ outbound[r].val.uri.pq = inbound[r].uri.pq
            /\ outbound[r].val.uri.scheme = <<"http">>

\* C16, witness: a request with a query string was given to the upstream
\* client in the backend build.
C16_Witness ==
    \E r \in Reqs :
        /\ variant = "backend"
        /\ outbound[r].some
        /\ Len(inbound[r].uri.pq) = 3

\* The names of the counters incremented for r, in order.
CounterNames(r) == [i \in 1..Len(Counters(r)) |-> Counters(r)[i].name]

\* C17, as stated: in the backend build a status >= 400 increments
\* error_responses alone, a status < 400 increments responses once and
\* redirect_responses before it exactly when it is 3xx; so responses +
\* error_responses is the number of completed requests and
\* redirect_responses <= responses.
C17_Original ==
    variant = "backend" =>
        /\ \A r \in Reqs : Done(r) =>
               LET S == clientResp[r].status
               IN  CounterNames(r) =
                       (IF S >= 400 THEN <<"error_responses">>
                        ELSE IF is_redirection(S) THEN <<"redirect_responses", "responses">>
                        ELSE <<"responses">>)
        /\ CounterTotal({"responses"}) + CounterTotal({"error_responses"}) = Cardinality(Served)
        /\ CounterTotal({"redirect_responses"}) <= CounterTotal({"responses"})

\* C17, amended: as stated, with the error class being 400..599: a status
\* of 600 or more increments responses, not error_responses.
C17_CounterPartition ==
    variant = "backend" =>
        /\ \A r \in Reqs : Done(r) =>
               LET S == clientResp[r].status
               IN  CounterNames(r) =
                       (IF 400 <= S /\ S <= 599 THEN <<"error_responses">>
                        ELSE IF is_redirection(S) THEN <<"redirect_responses", "responses">>
                        ELSE <<"responses">>)
        /\ CounterTotal({"responses"}) + CounterTotal({"error_responses"}) = Cardinality(Served)
        /\ CounterTotal({"redirect_responses"}) <= CounterTotal({"responses"})

\* C17, witness: the backend build served a redirect and a server error.
C17_Witness ==
    /\ variant = "backend"
    /\ \E r \in Reqs : Done(r) /\ clientResp[r].status = 301
    /\ \E r \in Reqs : Done(r) /\ clientResp[r].status = 500

\* C18: every completed request has exactly one observation in
\* response_processing_time_seconds, whatever the status class; in the
\* backend build its labels are those of every counter incremented for the
\* request, in the minimal build it has no label.
C18_OneObservation ==
    /\ \A r \in Reqs : Done(r) =>
           LET hs == OfKind(events[r], "histogram")
           IN  /\ Len(hs) = 1
               /\ hs[1].name = "response_processing_time_seconds"
               /\ IF variant = "backend"
                  THEN /\ hs[1].labels = MetricLabels(clientResp[r].status, inbound[r].method)
                       /\ \A i \in 1..Len(Counters(r)) : Counters(r)[i].labels = hs[1].labels
                  ELSE hs[1].labels = <<>>
    /\ BagCardinality(histogram) = Cardinality(Served)

\* C18, witness: completed requests of the error branch and of the redirect branch.
C18_Witness ==
    /\ \E r \in Reqs : Done(r) /\ clientResp[r].status = 404
    /\ \E r \in Reqs : Done(r) /\ clientResp[r].status = 301 /\ inbound[r].method = "POST"

====
